---- MODULE Spec2Model ----
(***************************************************************************)
(* Sympathetic Strings v3 (rigid bridge model): two finite-difference      *)
(* strings that share one bridge sample.  Model of                         *)
(* generativos/sympathetic-strings/src/physics.cpp.                        *)
(*                                                                         *)
(* Numbers.  Every C++ float is modelled by an integer in a fixed unit:    *)
(*   displacement (y, y_prev, bridgeY, amplitude)  1/YScale                *)
(*   velocity (v, bridgeV)                         (1/YScale) per dt       *)
(*   pluck position, x                             1/XScale                *)
(*   frequency                                     1/FreqScale Hz          *)
(*   tension                                       1/TenScale              *)
(*   density                                       1/DenScale              *)
(*   waveSpeed                                     1/WsScale               *)
(*   damping                                       1/DampScale             *)
(*   bridgeStiffness                               1/StiffScale            *)
(*   Courant number r and r*r                      1/RScale                *)
(*   energy                   0.5*dx/(dt*dt*YScale*YScale*DenScale)        *)
(*   forceOnBridge                                 1/ForceScale            *)
(*   time                                          dt                      *)
(* A finite float is an integer in -FMAX..FMAX; PINF, NINF and NAN are the *)
(* IEEE infinities and the quiet NaN.  Arithmetic rounds to the nearest    *)
(* unit, overflows to an infinity beyond FMAX and follows the IEEE rules   *)
(* for the special values; comparisons with NAN are false.                 *)
(***************************************************************************)
EXTENDS Integers, Sequences, FiniteSets, TLC

\* ------------------------------------------------------------------ floats
FMAX == 1000000000
PINF == FMAX + 1
NINF == 0 - (FMAX + 1)
NAN  == FMAX + 2

YScale     == 100000
XScale     == 10000
FreqScale  == 100
TenScale   == 1
DenScale   == 1000
WsScale    == 10
DampScale  == 100000
StiffScale == 1000
RScale     == 10000
RRoot      == 100
ForceScale == 100

IsNaN(a)    == a = NAN
IsInf(a)    == a = PINF \/ a = NINF
isfinite(a) == a <= FMAX /\ a >= 0 - FMAX

Abs(a) == IF a < 0 THEN 0 - a ELSE a

\* the float nearest to the exact integer x (overflow to an infinity)
Norm(x) == IF x > FMAX THEN PINF ELSE IF x < 0 - FMAX THEN NINF ELSE x

\* a / b rounded to nearest, b > 0
RDiv(a, b) == IF a >= 0 THEN (2 * a + b) \div (2 * b)
                        ELSE 0 - ((2 * (0 - a) + b) \div (2 * b))

\* IEEE float comparison and equality
FLt(a, b) == a # NAN /\ b # NAN /\ a < b
FEq(a, b) == a # NAN /\ b # NAN /\ a = b
FLe(a, b) == a # NAN /\ b # NAN /\ a <= b

FNeg(a) == IF a = NAN THEN NAN ELSE 0 - a

\* a + b with an operand that is an infinity or NaN
AddSpecial(a, b) ==
    IF a = NAN \/ b = NAN THEN NAN
    ELSE IF isfinite(b) THEN a
    ELSE IF isfinite(a) THEN b
    ELSE IF a = b THEN a
    ELSE NAN

FAdd(a, b) ==
    IF isfinite(a) /\ isfinite(b) THEN Norm(a + b) ELSE AddSpecial(a, b)

FSub(a, b) ==
    IF isfinite(a) /\ isfinite(b) THEN Norm(a - b) ELSE AddSpecial(a, FNeg(b))

\* m * b / c for 0 <= m, 0 < b, 0 < c, with c * b inside the integers: the
\* exact quotient rounded to nearest, or FMAX + 1 when it exceeds FMAX
MagMulDiv(m, b, c) ==
    IF (m \div c) > (FMAX \div b) THEN FMAX + 1
    ELSE LET q == (m \div c) * b + (((m % c) * b + c \div 2) \div c)
         IN  IF q > FMAX THEN FMAX + 1 ELSE q

\* float a times the finite float b >= 0, the product expressed by dividing
\* by the unit c of b
FMulDiv(a, b, c) ==
    IF isfinite(a)
    THEN (IF b = 0 THEN 0
          ELSE IF a >= 0 THEN MagMulDiv(a, b, c)
          ELSE 0 - MagMulDiv(0 - a, b, c))
    ELSE IF a = NAN \/ b = 0 THEN NAN
    ELSE a

\* 2.0f * a
Twice(a) == IF isfinite(a) THEN Norm(a + a) ELSE a

\* a * a in the energy unit
FSq(a) ==
    IF isfinite(a)
    THEN (IF a > 46340 \/ a < 0 - 46340 THEN PINF ELSE Norm(a * a))
    ELSE IF a = NAN THEN NAN
    ELSE PINF

\* std::min(a, b) and std::max(a, b): (b < a) ? b : a and (a < b) ? b : a
StdMin(a, b) == IF FLt(b, a) THEN b ELSE a
StdMax(a, b) == IF FLt(a, b) THEN b ELSE a

\* std::sqrt of a finite x >= 0, rounded to nearest
RECURSIVE SqrtSearch(_, _, _)
SqrtSearch(x, lo, hi) ==
    IF hi - lo <= 1 THEN (IF x - lo * lo <= hi * hi - x THEN lo ELSE hi)
    ELSE LET mid == (lo + hi) \div 2
         IN  IF mid * mid <= x THEN SqrtSearch(x, mid, hi)
                               ELSE SqrtSearch(x, lo, mid)
FSqrt(x) == SqrtSearch(x, 0, 32768)


\* ------------------------------------------------------------- constants
NUM_POINTS     == 200
HISTORY_LENGTH == 500
SAMPLE_RATE    == 44100
OVERSAMPLING   == 8
HISTORY_PERIOD == 100

N    == NUM_POINTS
Last == NUM_POINTS - 1
Idx  == 0 .. (NUM_POINTS - 1)

\* dt = 1.0f / (44100.0f * 8.0f): DtInv steps per second
DtInv == SAMPLE_RATE * OVERSAMPLING

\* a / dt and a * dt on velocities held in displacement units per dt
DivDt(a) == a
MulDt(a) == a

\* a / dx with dx = 1.0f / (NUM_POINTS - 1)
DivDx(a) == FMulDiv(a, NUM_POINTS - 1, 1)

FREQ1_DEFAULT   == 26163
FREQ2_DEFAULT   == 39200
FREQ_MIN        == 5000
FREQ_MAX        == 100000
DAMPING_DEFAULT == 1
DAMPING_MAX     == 1000
POSITION_MIN    == 1000
POSITION_MAX    == 9000
BRIDGE_LIMIT    == 50000

\* a std::array<float, NUM_POINTS> holding the samples f[0] .. f[N-1], each
\* evaluated once
Array(f) == IF f = f THEN f ELSE f

Zeros == [i \in Idx |-> 0]

\* ------------------------------------------------------------ StringState
\* tension = 4.0f * density * length * length * freq * freq
TensionOf(density, length, freq) ==
    FMulDiv(FMulDiv(freq, freq, FreqScale * 10),
            4 * density * length * length,
            (FreqScale * DenScale) \div (10 * TenScale))

\* waveSpeed = std::sqrt(tension / density)
WaveSpeedOf(tension, density) ==
    FSqrt((tension * ((DenScale * WsScale * WsScale) \div TenScale)) \div density)

StringState ==
    [ y               |-> Zeros,
      y_prev          |-> Zeros,
      v               |-> Zeros,
      frequency       |-> FREQ1_DEFAULT,
      tension         |-> 100 * TenScale,
      density         |-> 1,
      damping         |-> DAMPING_DEFAULT,
      length          |-> 1,
      waveSpeed       |-> WaveSpeedOf(100 * TenScale, 1),
      kineticEnergy   |-> 0,
      potentialEnergy |-> 0,
      totalEnergy     |-> 0,
      forceOnBridge   |-> 0 ]

setFrequency(s, freq) ==
    LET t == TensionOf(s.density, s.length, freq)
    IN  [s EXCEPT !.frequency = freq,
                  !.tension   = t,
                  !.waveSpeed = WaveSpeedOf(t, s.density)]


\* ------------------------------------------------------------ computeEnergy
\* ke += 0.5f * s.density * dx * s.v[i] * s.v[i]
KeTerm(s, i) == FMulDiv(FSq(s.v[i]), s.density, 1)

\* 0.5f * s.tension * dx / (dx * dx), in the energy unit (1/RScale)
PeCoef(s) ==
    FMulDiv(FMulDiv((s.tension * (DenScale \div TenScale)) \div s.density,
                    NUM_POINTS - 1, DtInv \div RRoot),
            NUM_POINTS - 1, DtInv \div RRoot)

\* strain = (s.y[i+1] - s.y[i]) / dx;  pe += 0.5f * s.tension * strain * strain * dx
PeTerm(s, coef, i) == FMulDiv(FSq(FSub(s.y[i + 1], s.y[i])), coef, RScale)

\* the accumulation loops; every term is >= 0, an infinity or NaN, so the
\* saturating sum does not depend on the order and is taken by halves
RECURSIVE FSum(_, _, _)
FSum(f, lo, hi) ==
    IF lo = hi THEN f[lo]
    ELSE FAdd(FSum(f, lo, (lo + hi) \div 2), FSum(f, (lo + hi) \div 2 + 1, hi))

KeSum(s) ==
    LET terms == Array([i \in Idx |-> KeTerm(s, i)])
    IN  FSum(terms, 0, NUM_POINTS - 1)

PeSum(s) ==
    LET coef == PeCoef(s)
        terms == Array([i \in 0 .. (NUM_POINTS - 2) |-> PeTerm(s, coef, i)])
    IN  FSum(terms, 0, NUM_POINTS - 2)

computeEnergy(s) ==
    LET ke == KeSum(s)
        pe == PeSum(s)
    IN  [s EXCEPT !.kineticEnergy   = ke,
                  !.potentialEnergy = pe,
                  !.totalEnergy     = FAdd(ke, pe)]

\* -------------------------------------------------------------------- pluck
\* position = std::max(0.1f, std::min(0.9f, position))
ClampPosition(position) == StdMax(POSITION_MIN, StdMin(POSITION_MAX, position))
\* amplitude = std::max(0.0f, std::min(1.0f, amplitude))
ClampAmplitude(amplitude) == StdMax(0, StdMin(YScale, amplitude))

\* x = static_cast<float>(i) / (NUM_POINTS - 1)
XOf(i) == RDiv(i * XScale, NUM_POINTS - 1)

\* the profile with the falling side divided by position as well
PluckShapeOneSlope(i, position, amplitude) ==
    IF FLt(XOf(i), position)
    THEN RDiv(amplitude * XOf(i), position)
    ELSE RDiv(amplitude * (XScale - XOf(i)), position)

\* the triangular profile at sample i
PluckShape(i, position, amplitude) ==
    IF FLt(XOf(i), position)
    THEN RDiv(amplitude * XOf(i), position)
    ELSE RDiv(amplitude * (XScale - XOf(i)), XScale - position)

\* for (int i = 0; i < NUM_POINTS; i++) s.y[i] = ...
PluckLoop(position, amplitude) ==
    Array([i \in Idx |-> PluckShape(i, position, amplitude)])

\* s.y[0] = 0.0f;  s.y_prev[0] = 0.0f
FixedEnd(f) == [f EXCEPT ![0] = 0]

\* a pluck whose loop stops before the bridge-end sample
PluckStringKeepsBridgeEnd(s, position, amplitude) ==
    LET shape == PluckLoop(ClampPosition(position), ClampAmplitude(amplitude))
    IN  computeEnergy([s EXCEPT
            !.y      = [FixedEnd(shape) EXCEPT ![Last] = s.y[Last]],
            !.y_prev = [FixedEnd(shape) EXCEPT ![Last] = s.y_prev[Last]],
            !.v      = Zeros])

PluckString(s, position, amplitude) ==
    LET shape == PluckLoop(ClampPosition(position), ClampAmplitude(amplitude))
    IN  computeEnergy([s EXCEPT !.y      = FixedEnd(shape),
                                !.y_prev = FixedEnd(shape),
                                !.v      = Zeros])

\* a selection that sends negative indices to string 1 as well
SelectsString1NonPositive(stringIndex) == stringIndex <= 0

\* StringState& s = (stringIndex == 0) ? string1 : string2
SelectsString1(stringIndex) == stringIndex = 0

pluck(sim, stringIndex, position, amplitude) ==
    IF SelectsString1(stringIndex)
    THEN [sim EXCEPT !.string1 = PluckString(sim.string1, position, amplitude)]
    ELSE [sim EXCEPT !.string2 = PluckString(sim.string2, position, amplitude)]


\* ----------------------------------------------------------------- stepOnce
\* r = waveSpeed * dt / dx
Courant(s) == FMulDiv(DivDx(s.waveSpeed), RScale \div WsScale, DtInv)
CourantSq(s) == FMulDiv(Courant(s), Courant(s), RScale)

\* damping * dt * vel with vel = (y - y_prev) / dt
DampTerm(s, i) ==
    FMulDiv(MulDt(DivDt(FSub(s.y[i], s.y_prev[i]))), s.damping, DampScale)

\* 2.0f * y[i] - y_prev[i] + r_sq * lap - damping * dt * vel, 0 < i < N - 1
Interior(s, r_sq, i) ==
    LET lap == FAdd(FSub(s.y[i + 1], Twice(s.y[i])), s.y[i - 1])
    IN  FSub(FAdd(FSub(Twice(s.y[i]), s.y_prev[i]),
                  FMulDiv(lap, r_sq, RScale)),
             DampTerm(s, i))

\* what the string wants at its right end: the outside neighbour is y[N-1]
Want(s, r_sq) ==
    LET lap == FAdd(FSub(s.y[Last - 1], Twice(s.y[Last])), s.y[Last])
    IN  FSub(FAdd(FSub(Twice(s.y[Last]), s.y_prev[Last]),
                  FMulDiv(lap, r_sq, RScale)),
             DampTerm(s, Last))

\* T * want with an infinite or NaN want (T > 0); a finite product cannot
\* change the sum
Pull(T, want) == IF isfinite(want) THEN 0 ELSE want

\* (T1 * w1 + T2 * w2) / totalTension: for finite wants the exact value rounded
\* once (no product of a tension and a finite want overflows a float)
WeightedMean(T1, w1, T2, w2, totalTension) ==
    IF isfinite(w1) /\ isfinite(w2)
    THEN Norm(T1 * (w1 \div totalTension) + T2 * (w2 \div totalTension)
              + RDiv(T1 * (w1 % totalTension) + T2 * (w2 % totalTension),
                     totalTension))
    ELSE FAdd(Pull(T1, w1), Pull(T2, w2))

\* float totalTension = string1.tension + string2.tension;
\* float newBridgeY = (T1 * y1_want + T2 * y2_want) / totalTension
BridgeCandidate(s1, s2) ==
    WeightedMean(s1.tension, Want(s1, CourantSq(s1)),
                 s2.tension, Want(s2, CourantSq(s2)),
                 s1.tension + s2.tension)

\* a blend that ignores the strings: the bridge is a wall
BlendHoldsBridge(sim) == sim.bridgeY

\* bridgeStiffness * newBridgeY + (1.0f - bridgeStiffness) * bridgeY
Blend(sim) ==
    FAdd(FMulDiv(BridgeCandidate(sim.string1, sim.string2),
                 sim.bridgeStiffness, StiffScale),
         FMulDiv(sim.bridgeY, FSub(StiffScale, sim.bridgeStiffness), StiffScale))

\* newBridgeY = std::max(-0.5f, std::min(0.5f, newBridgeY));
\* if (!std::isfinite(newBridgeY)) newBridgeY = 0.0f
SafetyClamp(b) ==
    LET c == StdMax(0 - BRIDGE_LIMIT, StdMin(BRIDGE_LIMIT, b))
    IN  IF ~isfinite(c) THEN 0 ELSE c

\* y_new with each string keeping its own candidate at the bridge end
NewYOwnCandidate(s, newBridgeY) ==
    LET r_sq == CourantSq(s)
    IN  Array([i \in Idx |-> IF i = 0 THEN 0
                             ELSE IF i = Last THEN Want(s, r_sq)
                             ELSE Interior(s, r_sq, i)])

\* y_new with a free left end
NewYFreeLeftEnd(s, newBridgeY) ==
    LET r_sq == CourantSq(s)
    IN  Array([i \in Idx |-> IF i = 0 THEN s.y[1]
                             ELSE IF i = Last THEN newBridgeY
                             ELSE Interior(s, r_sq, i)])

\* y_new of one string: fixed left end, interior update, shared bridge sample
NewY(s, newBridgeY) ==
    LET r_sq == CourantSq(s)
    IN  Array([i \in Idx |-> IF i = 0 THEN 0
                             ELSE IF i = Last THEN newBridgeY
                             ELSE Interior(s, r_sq, i)])

\* forceOnBridge = -tension * (y_new[N-1] - y_new[N-2]) / dx
ForceOnBridge(s, y_new) ==
    FNeg(FMulDiv(FMulDiv(DivDx(FSub(y_new[Last], y_new[Last - 1])),
                         1, YScale \div ForceScale),
                 s.tension, TenScale))

\* v = (y_new - y) / dt;  y_prev = y;  y = y_new;  then computeEnergy
Commit(s, y_new) ==
    computeEnergy([s EXCEPT !.v = Array([i \in Idx |-> DivDt(FSub(y_new[i], s.y[i]))]),
                            !.y_prev = s.y,
                            !.y = y_new,
                            !.forceOnBridge = ForceOnBridge(s, y_new)])

\* a recordHistory that makes room by dropping the newest entry
recordHistoryDropsNewest(sim) ==
    LET full == Len(sim.energy1History) >= HISTORY_LENGTH
        room(h) == IF full THEN SubSeq(h, 1, Len(h) - 1) ELSE h
    IN  [sim EXCEPT
           !.energy1History = Append(room(sim.energy1History),
                                     sim.string1.totalEnergy),
           !.energy2History = Append(room(sim.energy2History),
                                     sim.string2.totalEnergy),
           !.bridgeHistory  = Append(room(sim.bridgeHistory), sim.bridgeY)]

\* a recordHistory that evicts from energy1History only
recordHistoryEvictsOne(sim) ==
    LET full == Len(sim.energy1History) >= HISTORY_LENGTH
        e1 == IF full THEN Tail(sim.energy1History) ELSE sim.energy1History
    IN  [sim EXCEPT !.energy1History = Append(e1, sim.string1.totalEnergy),
                    !.energy2History = Append(sim.energy2History,
                                              sim.string2.totalEnergy),
                    !.bridgeHistory  = Append(sim.bridgeHistory, sim.bridgeY)]

recordHistory(sim) ==
    LET full == Len(sim.energy1History) >= HISTORY_LENGTH
        e1 == IF full THEN Tail(sim.energy1History) ELSE sim.energy1History
        e2 == IF full THEN Tail(sim.energy2History) ELSE sim.energy2History
        bh == IF full THEN Tail(sim.bridgeHistory) ELSE sim.bridgeHistory
    IN  [sim EXCEPT !.energy1History = Append(e1, sim.string1.totalEnergy),
                    !.energy2History = Append(e2, sim.string2.totalEnergy),
                    !.bridgeHistory  = Append(bh, sim.bridgeY)]

\* if (stepCount % 100 == 0) recordHistory()
RecordDue(stepCount) == stepCount % HISTORY_PERIOD = 0

stepOnce(sim) ==
    LET newBridgeY == SafetyClamp(Blend(sim))
        y1_new == NewY(sim.string1, newBridgeY)
        y2_new == NewY(sim.string2, newBridgeY)
        moved == [sim EXCEPT !.bridgeV   = DivDt(FSub(newBridgeY, sim.bridgeY)),
                             !.bridgeY   = newBridgeY,
                             !.string1   = Commit(sim.string1, y1_new),
                             !.string2   = Commit(sim.string2, y2_new),
                             !.time      = sim.time + 1,
                             !.stepCount = sim.stepCount + 1]
    IN  IF RecordDue(moved.stepCount) THEN recordHistory(moved) ELSE moved

\* ------------------------------------------------------------------ setters
ClampFrequency(freq) == StdMax(FREQ_MIN, StdMin(FREQ_MAX, freq))
ClampDamping(d)      == StdMax(0, StdMin(DAMPING_MAX, d))
ClampStiffness(k)    == StdMax(0, StdMin(StiffScale, k))

setString1Frequency(sim, freq) ==
    [sim EXCEPT !.string1 = setFrequency(sim.string1, ClampFrequency(freq))]
setString2Frequency(sim, freq) ==
    [sim EXCEPT !.string2 = setFrequency(sim.string2, ClampFrequency(freq))]
\* a setter that reaches string 1 only
setDampingFirstString(sim, d) ==
    [sim EXCEPT !.string1.damping = ClampDamping(d)]
setDamping(sim, d) ==
    [sim EXCEPT !.string1.damping = ClampDamping(d),
                !.string2.damping = ClampDamping(d)]
setBridgeStiffness(sim, k) ==
    [sim EXCEPT !.bridgeStiffness = ClampStiffness(k)]

\* -------------------------------------------------- constructor and reset
Constructed ==
    [ string1         |-> setFrequency(StringState, FREQ1_DEFAULT),
      string2         |-> setFrequency(StringState, FREQ2_DEFAULT),
      bridgeY         |-> 0,
      bridgeV         |-> 0,
      bridgeStiffness |-> StiffScale,
      time            |-> 0,
      stepCount       |-> 0,
      energy1History  |-> << >>,
      energy2History  |-> << >>,
      bridgeHistory   |-> << >> ]

\* a reset that leaves the stiffness alone
resetKeepsStiffness(sim) ==
    [sim EXCEPT !.string1         = setFrequency(StringState, FREQ1_DEFAULT),
                !.string2         = setFrequency(StringState, FREQ2_DEFAULT),
                !.bridgeY         = 0,
                !.bridgeV         = 0,
                !.time            = 0,
                !.stepCount       = 0,
                !.energy1History  = << >>,
                !.energy2History  = << >>,
                !.bridgeHistory   = << >>]

reset(sim) ==
    [sim EXCEPT !.string1         = setFrequency(StringState, FREQ1_DEFAULT),
                !.string2         = setFrequency(StringState, FREQ2_DEFAULT),
                !.bridgeY         = 0,
                !.bridgeV         = 0,
                !.bridgeStiffness = StiffScale,
                !.time            = 0,
                !.stepCount       = 0,
                !.energy1History  = << >>,
                !.energy2History  = << >>,
                !.bridgeHistory   = << >>]


\* ------------------------------------------------------------------- state
VARIABLES string1, string2, bridgeY, bridgeV, bridgeStiffness, time, stepCount,
          energy1History, energy2History, bridgeHistory,
          pending,   \* iterations the running step(numSteps) still has to do
          calls,     \* calls made so far
          last,      \* the latest operation and its arguments
          blended,   \* newBridgeY of the latest stepOnce before the safety clamp
          other      \* a second SympatheticStrings object (used by SpecTwin)

simVars == <<string1, string2, bridgeY, bridgeV, bridgeStiffness, time, stepCount,
             energy1History, energy2History, bridgeHistory>>
vars == <<simVars, pending, calls, last, blended, other>>

\* the SympatheticStrings object
This ==
    [ string1         |-> string1,
      string2         |-> string2,
      bridgeY         |-> bridgeY,
      bridgeV         |-> bridgeV,
      bridgeStiffness |-> bridgeStiffness,
      time            |-> time,
      stepCount       |-> stepCount,
      energy1History  |-> energy1History,
      energy2History  |-> energy2History,
      bridgeHistory   |-> bridgeHistory ]

Becomes(sim) ==
    /\ string1' = sim.string1
    /\ string2' = sim.string2
    /\ bridgeY' = sim.bridgeY
    /\ bridgeV' = sim.bridgeV
    /\ bridgeStiffness' = sim.bridgeStiffness
    /\ time' = sim.time
    /\ stepCount' = sim.stepCount
    /\ energy1History' = sim.energy1History
    /\ energy2History' = sim.energy2History
    /\ bridgeHistory' = sim.bridgeHistory

Starts(sim) ==
    /\ string1 = sim.string1
    /\ string2 = sim.string2
    /\ bridgeY = sim.bridgeY
    /\ bridgeV = sim.bridgeV
    /\ bridgeStiffness = sim.bridgeStiffness
    /\ time = sim.time
    /\ stepCount = sim.stepCount
    /\ energy1History = sim.energy1History
    /\ energy2History = sim.energy2History
    /\ bridgeHistory = sim.bridgeHistory

Op(name, a, b, c) == [op |-> name, a |-> a, b |-> b, c |-> c]

\* ------------------------------------------------------------------ bounds
MaxCalls == 3
MaxSteps == 2
MaxRun   == 30

\* arguments the caller passes: (stringIndex, position, amplitude), numSteps,
\* and the setters' values, with out-of-range, infinite and NaN inputs
PluckArgs  == { <<0, 5000, YScale>>, <<1, NAN, NAN>>,
                <<2, NINF, PINF>>, <<0 - 1, 3000, 0 - 5>> }
StepArgs   == 1 .. MaxSteps
Freq1Args  == { NAN, 44000, 90000 }
Freq2Args  == { NINF, PINF }
DampArgs   == { NINF, 500, PINF }
StiffArgs  == { 0 - 3, 500, NAN }

\* ----------------------------------------------------------------- actions
Control0 ==
    /\ pending = 0
    /\ calls = 0
    /\ last = Op("construct", 0, 0, 0)
    /\ blended = 0

Init ==
    /\ Starts(Constructed)
    /\ other = Constructed
    /\ Control0

Idle == pending = 0 /\ calls < MaxCalls

Pluck(stringIndex, position, amplitude) ==
    /\ Idle
    /\ Becomes(pluck(This, stringIndex, position, amplitude))
    /\ calls' = calls + 1
    /\ last' = Op("pluck", stringIndex, position, amplitude)
    /\ UNCHANGED <<pending, blended, other>>

\* step(numSteps): enter the loop
Step(numSteps) ==
    /\ Idle
    /\ pending' = numSteps
    /\ calls' = calls + 1
    /\ last' = Op("step", numSteps, 0, 0)
    /\ UNCHANGED <<simVars, blended, other>>

\* one iteration of the loop of step
StepOnce ==
    /\ pending > 0
    /\ Becomes(stepOnce(This))
    /\ blended' = Blend(This)
    /\ pending' = pending - 1
    /\ last' = Op("stepOnce", 0, 0, 0)
    /\ UNCHANGED <<calls, other>>

SetString1Frequency(freq) ==
    /\ Idle
    /\ Becomes(setString1Frequency(This, freq))
    /\ calls' = calls + 1
    /\ last' = Op("setString1Frequency", freq, 0, 0)
    /\ UNCHANGED <<pending, blended, other>>

SetString2Frequency(freq) ==
    /\ Idle
    /\ Becomes(setString2Frequency(This, freq))
    /\ calls' = calls + 1
    /\ last' = Op("setString2Frequency", freq, 0, 0)
    /\ UNCHANGED <<pending, blended, other>>

SetDamping(d) ==
    /\ Idle
    /\ Becomes(setDamping(This, d))
    /\ calls' = calls + 1
    /\ last' = Op("setDamping", d, 0, 0)
    /\ UNCHANGED <<pending, blended, other>>

SetBridgeStiffness(k) ==
    /\ Idle
    /\ Becomes(setBridgeStiffness(This, k))
    /\ calls' = calls + 1
    /\ last' = Op("setBridgeStiffness", k, 0, 0)
    /\ UNCHANGED <<pending, blended, other>>

Reset ==
    /\ Idle
    /\ Becomes(reset(This))
    /\ calls' = calls + 1
    /\ last' = Op("reset", 0, 0, 0)
    /\ UNCHANGED <<pending, blended, other>>

Next ==
    \/ \E a \in PluckArgs : Pluck(a[1], a[2], a[3])
    \/ \E n \in StepArgs : Step(n)
    \/ StepOnce
    \/ \E f \in Freq1Args : SetString1Frequency(f)
    \/ \E f \in Freq2Args : SetString2Frequency(f)
    \/ \E d \in DampArgs : SetDamping(d)
    \/ \E k \in StiffArgs : SetBridgeStiffness(k)
    \/ Reset

\* every call sequence of at most MaxCalls calls on a constructed object
Spec == Init /\ [][Next]_vars

\* ------------------------------------------------ long-running simulation
\* The object after k steps on unplucked strings: every sample, velocity,
\* energy and the bridge stay 0, and one all-zero triple was recorded at
\* each multiple of HISTORY_PERIOD, the oldest dropped beyond HISTORY_LENGTH.
RestAt(k) ==
    LET n == IF k \div HISTORY_PERIOD < HISTORY_LENGTH
             THEN k \div HISTORY_PERIOD ELSE HISTORY_LENGTH
    IN  [Constructed EXCEPT !.time = k,
                            !.stepCount = k,
                            !.energy1History = [i \in 1 .. n |-> 0],
                            !.energy2History = [i \in 1 .. n |-> 0],
                            !.bridgeHistory  = [i \in 1 .. n |-> 0]]

\* one step takes the object at rest after k steps to the one after k + 1
RestStep(k) == stepOnce(RestAt(k)) = RestAt(k + 1)

\* step counts shortly before the first record, before the history fills up
\* and before the first eviction
HistStarts == { HISTORY_PERIOD * k - MaxSteps :
                  k \in { 1, HISTORY_LENGTH, HISTORY_LENGTH + 1 } }

HistPluckArgs == { <<0, 5000, YScale>> }

InitHist ==
    /\ \E k \in HistStarts : Starts(RestAt(k))
    /\ other = Constructed
    /\ Control0

NextHist ==
    \/ \E a \in HistPluckArgs : Pluck(a[1], a[2], a[3])
    \/ \E n \in StepArgs : Step(n)
    \/ StepOnce
    \/ Reset

\* calls made on an object that has been stepping for a long time
SpecHist == InitHist /\ [][NextHist]_vars

\* -------------------------------------------------------------- two objects
\* Two objects configured alike, string 2 plucked on both; string 1 is then
\* plucked on the first only and both run the same step(numSteps).
TwinFreqs  == { 44000, FREQ_MAX }
TwinStiffs == { 0, StiffScale }

TwinBase(freq, k) ==
    pluck(setBridgeStiffness(setString1Frequency(Constructed, freq), k),
          1, 5000, YScale \div 2)

InitTwin ==
    /\ \E freq \in TwinFreqs, k \in TwinStiffs :
          /\ Starts(TwinBase(freq, k))
          /\ other = TwinBase(freq, k)
    /\ Control0

Perturb ==
    /\ pending = 0
    /\ calls = 0
    /\ Becomes(pluck(This, 0, POSITION_MAX, YScale))
    /\ calls' = calls + 1
    /\ last' = Op("pluck", 0, POSITION_MAX, YScale)
    /\ UNCHANGED <<pending, blended, other>>

TwinStep(numSteps) ==
    /\ pending = 0
    /\ calls = 1
    /\ pending' = numSteps
    /\ calls' = calls + 1
    /\ last' = Op("step", numSteps, 0, 0)
    /\ UNCHANGED <<simVars, blended, other>>

TwinStepOnce ==
    /\ pending > 0
    /\ Becomes(stepOnce(This))
    /\ other' = stepOnce(other)
    /\ blended' = Blend(This)
    /\ pending' = pending - 1
    /\ last' = Op("stepOnce", 0, 0, 0)
    /\ UNCHANGED calls

NextTwin ==
    \/ Perturb
    \/ TwinStep(MaxRun)
    \/ TwinStepOnce

SpecTwin == InitTwin /\ [][NextTwin]_vars

\* ---------------------------------------------------- the transfer scenario
\* construct, pluck(0, 0.5, 1.0), step(ScenarioSteps)
ScenarioSteps == 800

ScenarioPluck == calls = 0 /\ Pluck(0, 5000, YScale)

ScenarioStep == calls = 1 /\ Step(ScenarioSteps)

NextScenario ==
    \/ ScenarioPluck
    \/ ScenarioStep
    \/ StepOnce

SpecScenario == Init /\ [][NextScenario]_vars

\* ------------------------------------------------------ records in a row
\* an object at rest one step before its histories fill up, then plucked
\* and stepped from one record to the next
FifoStart == HISTORY_PERIOD * HISTORY_LENGTH - 1

InitFifo ==
    /\ Starts(RestAt(FifoStart))
    /\ other = Constructed
    /\ Control0

NextFifo ==
    \/ \E a \in HistPluckArgs : Pluck(a[1], a[2], a[3])
    \/ Step(HISTORY_PERIOD)
    \/ StepOnce

SpecFifo == InitFifo /\ [][NextFifo]_vars

\* --------------------------------------------------------------- properties
\* the string the latest pluck selected
Plucked == IF last.a = 0 THEN string1 ELSE string2

\* a clamped to [lo, hi]
Clamped(a, lo, hi) == IF a < lo THEN lo ELSE IF a > hi THEN hi ELSE a

\* C1: immediately after every single step the rightmost samples of both
\* strings and bridgeY are exactly equal
C1_BridgeShared ==
    last.op = "stepOnce" =>
        /\ FEq(string1.y[Last], string2.y[Last])
        /\ FEq(string1.y[Last], bridgeY)
        /\ FEq(string2.y[Last], bridgeY)

C1_Witness ==
    /\ last.op = "stepOnce"
    /\ bridgeY # 0
    /\ string1.y[Last] = bridgeY
    /\ string1.y[Last - 1] # string2.y[Last - 1]

\* C2: in every reachable state y[0] and y_prev[0] of both strings are 0
C2_LeftEndFixed ==
    /\ string1.y[0] = 0 /\ string1.y_prev[0] = 0
    /\ string2.y[0] = 0 /\ string2.y_prev[0] = 0

C2_Witness ==
    /\ last.op = "stepOnce"
    /\ string1.y[0] = 0
    /\ string1.y[1] # 0
    /\ string1.y[1] # string1.y_prev[1]

\* C3: after reset the object equals a freshly constructed one: strings
\* all-zero at 261.63 and 392.00 Hz with default damping, bridgeY, bridgeV,
\* time and stepCount 0, stiffness 1.0, the three histories empty
C3_ResetIsConstruct ==
    last.op = "reset" =>
        /\ This = Constructed
        /\ string1.y = Zeros /\ string1.y_prev = Zeros /\ string1.v = Zeros
        /\ string2.y = Zeros /\ string2.y_prev = Zeros /\ string2.v = Zeros
        /\ string1.frequency = FREQ1_DEFAULT
        /\ string2.frequency = FREQ2_DEFAULT
        /\ string1.damping = DAMPING_DEFAULT
        /\ string2.damping = DAMPING_DEFAULT
        /\ bridgeY = 0 /\ bridgeV = 0
        /\ bridgeStiffness = StiffScale
        /\ time = 0 /\ stepCount = 0
        /\ energy1History = << >>
        /\ energy2History = << >>
        /\ bridgeHistory = << >>

\* a reset of an object that was retuned, plucked or stepped with a moving
\* bridge before
C3_Witness ==
    /\ last.op = "reset"
    /\ calls = MaxCalls
    /\ blended # 0
    /\ This = Constructed

\* C4: in every reachable state both frequencies are in [50, 1000] Hz, the
\* two dampings are one value in [0, 0.01] and bridgeStiffness is in [0, 1]
C4_SettersClamp ==
    /\ string1.frequency >= FREQ_MIN /\ string1.frequency <= FREQ_MAX
    /\ string2.frequency >= FREQ_MIN /\ string2.frequency <= FREQ_MAX
    /\ string1.damping = string2.damping
    /\ string1.damping >= 0 /\ string1.damping <= DAMPING_MAX
    /\ bridgeStiffness >= 0 /\ bridgeStiffness <= StiffScale

C4_Witness ==
    /\ last.op = "setDamping"
    /\ last.a = PINF
    /\ string1.damping = DAMPING_MAX
    /\ string2.damping = DAMPING_MAX
    /\ string1.frequency = FREQ_MAX
    /\ string2.frequency = FREQ_MIN

\* C5: immediately after a pluck the plucked string has y[0] = 0, every
\* sample in [0, A] with A the amplitude clamped to [0, 1], y_prev equal to
\* y and v zero everywhere
C5_PluckShape ==
    last.op = "pluck" =>
        LET A == IF IsNaN(last.c) THEN YScale ELSE Clamped(last.c, 0, YScale)
        IN  /\ Plucked.y[0] = 0
            /\ \A i \in Idx : Plucked.y[i] >= 0 /\ Plucked.y[i] <= A
            /\ Plucked.y_prev = Plucked.y
            /\ Plucked.v = Zeros

\* a pluck of a string that was moving, with position and amplitude out of
\* range
C5_Witness ==
    /\ last.op = "pluck"
    /\ last.a = 2 /\ last.b = NINF /\ last.c = PINF
    /\ stepCount > 0
    /\ \E i \in Idx : string2.y[i] > YScale \div 2
    /\ string2.y_prev = string2.y

C7_HistoryLength ==
    LET n == IF stepCount \div HISTORY_PERIOD < HISTORY_LENGTH
             THEN stepCount \div HISTORY_PERIOD ELSE HISTORY_LENGTH
    IN  /\ Len(energy1History) = n
        /\ Len(energy2History) = n
        /\ Len(bridgeHistory) = n
        /\ n <= HISTORY_LENGTH

\* a triple recorded into full histories
C7_Witness ==
    /\ stepCount = HISTORY_PERIOD * (HISTORY_LENGTH + 1)
    /\ Len(energy1History) = HISTORY_LENGTH
    /\ Len(bridgeHistory) = HISTORY_LENGTH
    /\ energy1History[HISTORY_LENGTH] # 0

\* C8: with bridgeStiffness 0, in two runs that differ in string 1 only, a
\* step leaves bridgeY as it was in both runs and string 2's y, v and
\* energies are the same in both runs
C8_NoCoupling ==
    [][ (last'.op = "stepOnce" /\ bridgeStiffness = 0
                               /\ other.bridgeStiffness = 0) =>
          /\ bridgeY' = bridgeY
          /\ other'.bridgeY = other.bridgeY
          /\ string2'.y = other'.string2.y
          /\ string2'.v = other'.string2.v
          /\ string2'.kineticEnergy = other'.string2.kineticEnergy
          /\ string2'.potentialEnergy = other'.string2.potentialEnergy
          /\ string2'.totalEnergy = other'.string2.totalEnergy ]_vars

\* C9: after a step, bridgeY and both rightmost samples are 0 if the blended
\* position was non-finite, and the blended position clamped to [-0.5, 0.5]
\* otherwise
C9_NonFiniteIsZero ==
    last.op = "stepOnce" =>
        LET expected == IF isfinite(blended)
                        THEN Clamped(blended, 0 - BRIDGE_LIMIT, BRIDGE_LIMIT)
                        ELSE 0
        IN  /\ bridgeY = expected
            /\ string1.y[Last] = expected
            /\ string2.y[Last] = expected

\* C10: in every reachable state the Courant number of each string is below 1
C10_CourantBelowOne ==
    /\ FLt(Courant(string1), RScale)
    /\ FLt(Courant(string2), RScale)

\* C11: a pluck with index 0 reshapes string 1 and with any other index
\* string 2; the other string, bridgeY, bridgeV, bridgeStiffness, time,
\* stepCount, both frequencies and the three histories stay as they were
C11_PluckFrame ==
    [][ last'.op = "pluck" =>
          /\ IF last'.a = 0
             THEN /\ string2' = string2
                  /\ string1'.y_prev = string1'.y /\ string1'.v = Zeros
                  /\ string1'.y[0] = 0
             ELSE /\ string1' = string1
                  /\ string2'.y_prev = string2'.y /\ string2'.v = Zeros
                  /\ string2'.y[0] = 0
          /\ string1'.frequency = string1.frequency
          /\ string2'.frequency = string2.frequency
          /\ bridgeY' = bridgeY
          /\ bridgeV' = bridgeV
          /\ bridgeStiffness' = bridgeStiffness
          /\ time' = time
          /\ stepCount' = stepCount
          /\ energy1History' = energy1History
          /\ energy2History' = energy2History
          /\ bridgeHistory' = bridgeHistory ]_vars

\* a pluck with a negative index flattened the moving string 2 and left the
\* moving string 1 and the displaced bridge alone
C11_Witness ==
    /\ last.op = "pluck"
    /\ last.a < 0
    /\ stepCount > 0
    /\ bridgeY # 0
    /\ string2.y = Zeros
    /\ string1.y[Last] = bridgeY
    /\ string1.v # Zeros

\* C12: after construct, pluck(0, 0.5, 1.0) and step(800), string 1's total
\* energy is below its value right after the pluck and string 2's total
\* energy is above 0
C12_EnergyCrosses ==
    (calls = 2 /\ pending = 0 /\ stepCount = ScenarioSteps) =>
        /\ FLt(string1.totalEnergy,
               pluck(Constructed, 0, 5000, YScale).string1.totalEnergy)
        /\ FLt(0, string2.totalEnergy)

C12_Witness ==
    /\ last.op = "stepOnce"
    /\ calls = 2 /\ pending = 0
    /\ stepCount = ScenarioSteps
    /\ string1.totalEnergy > 0
    /\ string2.totalEnergy > 0
    /\ Len(energy2History) = ScenarioSteps \div HISTORY_PERIOD

\* C13: a step that brings stepCount to a multiple of 100 appends string 1's
\* total energy, string 2's total energy and bridgeY of that step to the
\* three histories, after removing the oldest entry of each when they hold
\* 500; a reset empties them; nothing else changes them
C13_FifoAligned ==
    [][ LET full == Len(energy1History) >= HISTORY_LENGTH
            kept(h) == IF full THEN SubSeq(h, 2, Len(h)) ELSE h
        IN  IF last'.op = "stepOnce" /\ stepCount' % HISTORY_PERIOD = 0
            THEN /\ energy1History' =
                        Append(kept(energy1History), string1'.totalEnergy)
                 /\ energy2History' =
                        Append(kept(energy2History), string2'.totalEnergy)
                 /\ bridgeHistory' = Append(kept(bridgeHistory), bridgeY')
            ELSE IF last'.op = "reset"
            THEN /\ energy1History' = << >>
                 /\ energy2History' = << >>
                 /\ bridgeHistory' = << >>
            ELSE /\ energy1History' = energy1History
                 /\ energy2History' = energy2History
                 /\ bridgeHistory' = bridgeHistory ]_vars

\* two records of a moving string in a row, the second into full histories
C13_Witness ==
    /\ last.op = "stepOnce"
    /\ stepCount = HISTORY_PERIOD * (HISTORY_LENGTH + 1)
    /\ Len(energy1History) = HISTORY_LENGTH
    /\ energy1History[HISTORY_LENGTH - 2] = 0
    /\ energy1History[HISTORY_LENGTH - 1] # 0
    /\ energy1History[HISTORY_LENGTH] = string1.totalEnergy
    /\ energy1History[HISTORY_LENGTH] # energy1History[HISTORY_LENGTH - 1]
    /\ energy2History[HISTORY_LENGTH] = string2.totalEnergy
    /\ bridgeHistory[HISTORY_LENGTH] = bridgeY
    /\ bridgeHistory[HISTORY_LENGTH - 1] # 0

\* C14: in every reachable state v[i] == (y[i] - y_prev[i]) / dt for every
\* index i of each string, the bridge-end index included
C14_VelocityFromSamples ==
    /\ \A i \in Idx :
          FEq(string1.v[i], DivDt(FSub(string1.y[i], string1.y_prev[i])))
    /\ \A i \in Idx :
          FEq(string2.v[i], DivDt(FSub(string2.y[i], string2.y_prev[i])))

====
